---- MODULE Spec2Model ----
(***************************************************************************)
(* State-machine model of ThreadPool (src/ThreadPool/ThreadPool.h).        *)
(*                                                                         *)
(* Worker threads run threadMain; client threads call addTask, waitAll,    *)
(* waitTask, isCompleted and stopProcessingTasks.  Every access to shared  *)
(* state that is separated from the next one by a lock operation or by an  *)
(* unprotected atomic access is its own step.  A condition-variable wait   *)
(* with predicate is `while (!pred()) wait(l)`: the predicate is evaluated *)
(* with the lock held, a false predicate releases the lock and blocks, and *)
(* a woken thread re-acquires the lock and evaluates the predicate again.  *)
(***************************************************************************)
EXTENDS Integers, Sequences, FiniteSets, TLC

\* ---- bounds of the model ------------------------------------------------
NumWorkers == 2      \* numThreads passed to the constructor
NumCallers == 2      \* client threads using the pool
MaxTasks == 2        \* addTask calls over the life of the pool
MaxStops == 1        \* stopProcessingTasks calls over the life of the pool

Workers == 1..NumWorkers
Callers == 1..NumCallers

\* thread ids used as mutex owners; 0 is "unlocked"
Unlocked == 0
WTid(w) == w
CTid(c) == NumWorkers + c

\* what a task body does when invoked: return, throw, never finish, or call
\* addTask on the pool it runs on and return
Bodies == {"ok", "throw"}
BusyBodies == {"ok", "loop", "submit"}
\* ids a client may pass to waitTask / isCompleted
TaskIdArgs == (0 - 1)..(MaxTasks + 1)

\* struct Task: default member initialisers give an empty std::function and id 0
EmptyTask == [executable |-> "empty", taskId |-> 0]

VARIABLES
  tasksQueue_,        \* std::queue<Task>
  completedTaskIds_,  \* std::unordered_set<int64_t>
  lastTaskId_,        \* std::atomic<int64_t>
  isTerminated_,      \* std::atomic_bool
  mutex_q_,           \* owner of mutex_q_
  mutex_s_,           \* owner of mutex_s_
  wpc,                \* position of each worker in threadMain
  taskToComplete,     \* threadMain's local Task
  cpc,                \* position of each client thread
  carg,               \* taskId argument of the running waitTask / isCompleted
  cbody,              \* body handed to the running addTask
  cret,               \* value returned by the last finished addTask
  cres,               \* value returned by the last finished isCompleted
  cpushed,            \* taskId stored in the Task the running addTask pushed
  csnap,              \* ids whose addTask had returned when waitAll was called
  cvalid,             \* history: 0 < taskId <= lastTaskId_ held when the call was made
  aborted,            \* std::terminate was called: the process is gone
  enqueueLog,         \* history: taskIds in the order they were enqueued
  dequeueLog,         \* history: taskIds in the order workers dequeued them
  execCount,          \* history: how many times the body of each taskId has run to its end
  addDone,            \* history: ids pushed by addTask calls that returned
  stopCalls,          \* history: stopProcessingTasks calls started
  stopDone,           \* history: stopProcessingTasks calls returned
  heldAtStop,         \* history: the taskId each worker had in hand when stop was called
  notified,           \* history: taskIds whose completion was announced by notify_all
  dtorBy,             \* the client thread running ~ThreadPool, 0 while the pool lives
  pendingAtDtor       \* history: ids queued or in a worker's hands when ~ThreadPool began

poolVars == <<tasksQueue_, completedTaskIds_, lastTaskId_, isTerminated_>>
lockVars == <<mutex_q_, mutex_s_>>
workerVars == <<wpc, taskToComplete>>
callerVars == <<cpc, carg, cbody, cret, cres, cpushed, csnap, cvalid>>
histVars == <<enqueueLog, dequeueLog, execCount, addDone, stopCalls, stopDone, heldAtStop,
              notified>>
dtorVars == <<dtorBy, pendingAtDtor>>
vars == <<poolVars, lockVars, workerVars, callerVars, histVars, aborted, dtorVars>>

\* ThreadPool::ThreadPool: empty queue and set, lastTaskId_(0),
\* isTerminated_(false), numThreads workers entering threadMain
Init ==
  /\ tasksQueue_ = <<>>
  /\ completedTaskIds_ = {}
  /\ lastTaskId_ = 0
  /\ isTerminated_ = FALSE
  /\ mutex_q_ = Unlocked
  /\ mutex_s_ = Unlocked
  /\ wpc = [w \in Workers |-> "lock_q"]
  /\ taskToComplete = [w \in Workers |-> EmptyTask]
  /\ cpc = [c \in Callers |-> "idle"]
  /\ carg = [c \in Callers |-> 0]
  /\ cbody = [c \in Callers |-> "ok"]
  /\ cret = [c \in Callers |-> 0]
  /\ cres = [c \in Callers |-> FALSE]
  /\ cpushed = [c \in Callers |-> 0]
  /\ csnap = [c \in Callers |-> {}]
  /\ cvalid = [c \in Callers |-> FALSE]
  /\ aborted = FALSE
  /\ enqueueLog = <<>>
  /\ dequeueLog = <<>>
  /\ execCount = [i \in 0..MaxTasks |-> 0]
  /\ addDone = {}
  /\ stopCalls = 0
  /\ stopDone = 0
  /\ heldAtStop = [w \in Workers |-> 0]
  /\ notified = {}
  /\ dtorBy = 0
  /\ pendingAtDtor = {}

\* ---- helpers --------------------------------------------------------------
Range(s) == {s[i] : i \in 1..Len(s)}

\* cv_new_task_.notify_one(): wakes one blocked worker, if there is one
NotifyOneNewTask_None ==
  wpc' = wpc
NotifyOneNewTask ==
  \/ \E w \in Workers :
       /\ wpc[w] = "cv_blocked"
       /\ wpc' = [wpc EXCEPT ![w] = "lock_q"]
  \/ /\ \A w \in Workers : wpc[w] # "cv_blocked"
     /\ wpc' = wpc

\* cv_new_task_.notify_all(): wakes every blocked worker
NotifyAllNewTask_None ==
  wpc' = wpc
NotifyAllNewTask ==
  wpc' = [w \in Workers |-> IF wpc[w] = "cv_blocked" THEN "lock_q" ELSE wpc[w]]

\* where a thread blocked on cv_completed_task_ resumes: it re-locks mutex_s_
Resume(p) ==
  IF p = "wa_blocked" THEN "wa_lock"
  ELSE IF p = "wt_blocked" THEN "wt_lock"
  ELSE p

\* cv_completed_task_.notify_all(): wakes every blocked waiter
NotifyAllCompleted_None ==
  cpc' = cpc
NotifyAllCompleted ==
  cpc' = [c \in Callers |-> Resume(cpc[c])]

\* positions of a worker inside a body that calls addTask (lines 169-173)
InBody == {"b_lock", "b_emplace", "b_notify", "b_return"}

\* positions of threadMain at which the worker has dequeued a task (lines 38-45)
InHand == {"exec", "lock_s", "emplace", "notify"} \cup InBody

\* tasks that will call addTask and have not pushed yet; the model keeps room
\* below MaxTasks for the task each of them is going to push
PendingSubmits ==
  Cardinality({i \in 1..Len(tasksQueue_) : tasksQueue_[i].executable = "submit"})
  + Cardinality({w \in Workers : /\ wpc[w] \in {"exec", "b_lock", "b_emplace"}
                                 /\ taskToComplete[w].executable = "submit"})

\* ---- threadMain -------------------------------------------------------------
\* the wait predicate of line 29
NewTaskPred == tasksQueue_ # <<>>

\* the test of line 30
ShouldBreak_Never == FALSE
ShouldBreak == isTerminated_

\* tasksQueue_.front() of line 35
FrontTask_Back(q) == q[Len(q)]
FrontTask(q) == Head(q)

\* tasksQueue_.pop() of line 36
PopQueue_None(q) == q
PopQueue(q) == Tail(q)

\* line 28: std::unique_lock l(mutex_q_), also the re-lock after a wake-up
WorkerLock(w) ==
  /\ ~aborted
  /\ wpc[w] = "lock_q"
  /\ mutex_q_ = Unlocked
  /\ mutex_q_' = WTid(w)
  /\ wpc' = [wpc EXCEPT ![w] = "crit_q"]
  /\ UNCHANGED <<poolVars, mutex_s_, taskToComplete, callerVars, histVars, aborted, dtorVars>>

\* lines 29-37, with mutex_q_ held.  Line 29: a false predicate releases the
\* lock and blocks on cv_new_task_.  Lines 30-34: if (isTerminated_) break, the
\* lock being released on the way out.  Lines 35-37: move the front task out,
\* pop it, release mutex_q_.
WorkerCritical_KeepLock(w) ==
  /\ ~aborted
  /\ wpc[w] = "crit_q"
  /\ mutex_q_' = IF NewTaskPred /\ ~ShouldBreak THEN mutex_q_ ELSE Unlocked
  /\ IF ~NewTaskPred
       THEN /\ wpc' = [wpc EXCEPT ![w] = "cv_blocked"]
            /\ UNCHANGED <<tasksQueue_, taskToComplete, dequeueLog>>
       ELSE IF ShouldBreak
         THEN /\ wpc' = [wpc EXCEPT ![w] = "stopped"]
              /\ UNCHANGED <<tasksQueue_, taskToComplete, dequeueLog>>
         ELSE /\ taskToComplete' = [taskToComplete EXCEPT ![w] = FrontTask(tasksQueue_)]
              /\ tasksQueue_' = PopQueue(tasksQueue_)
              /\ dequeueLog' = Append(dequeueLog, FrontTask(tasksQueue_).taskId)
              /\ wpc' = [wpc EXCEPT ![w] = "exec"]
  /\ UNCHANGED <<completedTaskIds_, lastTaskId_, isTerminated_, mutex_s_,
                 callerVars, enqueueLog, execCount, addDone, stopCalls, stopDone,
                 heldAtStop, notified, aborted, dtorVars>>

WorkerCritical(w) ==
  /\ ~aborted
  /\ wpc[w] = "crit_q"
  /\ mutex_q_' = Unlocked
  /\ IF ~NewTaskPred
       THEN /\ wpc' = [wpc EXCEPT ![w] = "cv_blocked"]
            /\ UNCHANGED <<tasksQueue_, taskToComplete, dequeueLog>>
       ELSE IF ShouldBreak
         THEN /\ wpc' = [wpc EXCEPT ![w] = "stopped"]
              /\ UNCHANGED <<tasksQueue_, taskToComplete, dequeueLog>>
         ELSE /\ taskToComplete' = [taskToComplete EXCEPT ![w] = FrontTask(tasksQueue_)]
              /\ tasksQueue_' = PopQueue(tasksQueue_)
              /\ dequeueLog' = Append(dequeueLog, FrontTask(tasksQueue_).taskId)
              /\ wpc' = [wpc EXCEPT ![w] = "exec"]
  /\ UNCHANGED <<completedTaskIds_, lastTaskId_, isTerminated_, mutex_s_,
                 callerVars, enqueueLog, execCount, addDone, stopCalls, stopDone,
                 heldAtStop, notified, aborted, dtorVars>>

\* a condition-variable wait may wake up without a notification
WorkerSpuriousWake(w) ==
  /\ ~aborted
  /\ wpc[w] = "cv_blocked"
  /\ wpc' = [wpc EXCEPT ![w] = "lock_q"]
  /\ UNCHANGED <<poolVars, lockVars, taskToComplete, callerVars, histVars, aborted, dtorVars>>

\* line 39: taskToComplete.executable().  There is no try/catch in threadMain
\* and the thread function of a std::jthread must not exit by an exception:
\* a body that throws (or an empty std::function, which throws
\* std::bad_function_call) ends in std::terminate.  A body that never finishes
\* takes no step; a body that calls addTask goes through lines 169-173 first.
WorkerExec_BreakWhenTerminated(w) ==
  /\ ~aborted
  /\ wpc[w] = "exec"
  /\ taskToComplete[w].executable # "loop"
  /\ IF taskToComplete[w].executable = "ok"
       THEN /\ wpc' = [wpc EXCEPT ![w] = IF isTerminated_ THEN "stopped" ELSE "lock_s"]
            /\ execCount' = [execCount EXCEPT ![taskToComplete[w].taskId] = @ + 1]
            /\ aborted' = aborted
       ELSE IF taskToComplete[w].executable = "submit"
         THEN /\ wpc' = [wpc EXCEPT ![w] = "b_lock"]
              /\ UNCHANGED <<execCount, aborted>>
         ELSE /\ aborted' = TRUE
              /\ UNCHANGED <<wpc, execCount>>
  /\ UNCHANGED <<poolVars, lockVars, taskToComplete, callerVars,
                 enqueueLog, dequeueLog, addDone, stopCalls, stopDone, heldAtStop, notified,
                 dtorVars>>

WorkerExec(w) ==
  /\ ~aborted
  /\ wpc[w] = "exec"
  /\ taskToComplete[w].executable # "loop"
  /\ IF taskToComplete[w].executable = "ok"
       THEN /\ wpc' = [wpc EXCEPT ![w] = "lock_s"]
            /\ execCount' = [execCount EXCEPT ![taskToComplete[w].taskId] = @ + 1]
            /\ aborted' = aborted
       ELSE IF taskToComplete[w].executable = "submit"
         THEN /\ wpc' = [wpc EXCEPT ![w] = "b_lock"]
              /\ UNCHANGED <<execCount, aborted>>
         ELSE /\ aborted' = TRUE
              /\ UNCHANGED <<wpc, execCount>>
  /\ UNCHANGED <<poolVars, lockVars, taskToComplete, callerVars,
                 enqueueLog, dequeueLog, addDone, stopCalls, stopDone, heldAtStop, notified,
                 dtorVars>>

\* the body calls addTask, line 169: std::lock_guard l(mutex_q_)
WorkerBodyLock(w) ==
  /\ ~aborted
  /\ wpc[w] = "b_lock"
  /\ mutex_q_ = Unlocked
  /\ mutex_q_' = WTid(w)
  /\ wpc' = [wpc EXCEPT ![w] = "b_emplace"]
  /\ UNCHANGED <<poolVars, mutex_s_, taskToComplete, callerVars, histVars, aborted, dtorVars>>

\* the body's addTask, lines 170-171
WorkerBodyEmplace(w) ==
  /\ ~aborted
  /\ wpc[w] = "b_emplace"
  /\ lastTaskId_' = lastTaskId_ + 1
  /\ tasksQueue_' = Append(tasksQueue_, [executable |-> "ok", taskId |-> lastTaskId_ + 1])
  /\ enqueueLog' = Append(enqueueLog, lastTaskId_ + 1)
  /\ mutex_q_' = Unlocked
  /\ wpc' = [wpc EXCEPT ![w] = "b_notify"]
  /\ UNCHANGED <<completedTaskIds_, isTerminated_, mutex_s_, taskToComplete, callerVars,
                 dequeueLog, execCount, addDone, stopCalls, stopDone, heldAtStop,
                 notified, aborted, dtorVars>>

\* the body's addTask, line 172: cv_new_task_.notify_one()
WorkerBodyNotify(w) ==
  /\ ~aborted
  /\ wpc[w] = "b_notify"
  /\ \/ \E v \in Workers :
          /\ wpc[v] = "cv_blocked"
          /\ wpc' = [wpc EXCEPT ![v] = "lock_q", ![w] = "b_return"]
     \/ /\ \A v \in Workers : wpc[v] # "cv_blocked"
        /\ wpc' = [wpc EXCEPT ![w] = "b_return"]
  /\ UNCHANGED <<poolVars, lockVars, taskToComplete, callerVars, histVars, aborted, dtorVars>>

\* the body's addTask returns (line 173) and the body runs to its end
WorkerBodyReturn(w) ==
  /\ ~aborted
  /\ wpc[w] = "b_return"
  /\ addDone' = addDone \cup {lastTaskId_}
  /\ execCount' = [execCount EXCEPT ![taskToComplete[w].taskId] = @ + 1]
  /\ wpc' = [wpc EXCEPT ![w] = "lock_s"]
  /\ UNCHANGED <<poolVars, lockVars, taskToComplete, callerVars, enqueueLog, dequeueLog,
                 stopCalls, stopDone, heldAtStop, notified, aborted, dtorVars>>

\* line 42: std::lock_guard l(mutex_s_)
WorkerLockS(w) ==
  /\ ~aborted
  /\ wpc[w] = "lock_s"
  /\ mutex_s_ = Unlocked
  /\ mutex_s_' = WTid(w)
  /\ wpc' = [wpc EXCEPT ![w] = "emplace"]
  /\ UNCHANGED <<poolVars, mutex_q_, taskToComplete, callerVars, histVars, aborted, dtorVars>>

\* lines 43-44: completedTaskIds_.emplace(taskId), release mutex_s_
WorkerEmplace_LastId(w) ==
  /\ ~aborted
  /\ wpc[w] = "emplace"
  /\ completedTaskIds_' = completedTaskIds_ \cup {lastTaskId_}
  /\ mutex_s_' = Unlocked
  /\ wpc' = [wpc EXCEPT ![w] = "notify"]
  /\ UNCHANGED <<tasksQueue_, lastTaskId_, isTerminated_, mutex_q_, taskToComplete,
                 callerVars, histVars, aborted, dtorVars>>

WorkerEmplace(w) ==
  /\ ~aborted
  /\ wpc[w] = "emplace"
  /\ completedTaskIds_' = completedTaskIds_ \cup {taskToComplete[w].taskId}
  /\ mutex_s_' = Unlocked
  /\ wpc' = [wpc EXCEPT ![w] = "notify"]
  /\ UNCHANGED <<tasksQueue_, lastTaskId_, isTerminated_, mutex_q_, taskToComplete,
                 callerVars, histVars, aborted, dtorVars>>

\* line 45: cv_completed_task_.notify_all(), then the next loop iteration
\* (line 26 gives the iteration a fresh default-constructed Task)
WorkerNotify(w) ==
  /\ ~aborted
  /\ wpc[w] = "notify"
  /\ NotifyAllCompleted
  /\ wpc' = [wpc EXCEPT ![w] = "lock_q"]
  /\ taskToComplete' = [taskToComplete EXCEPT ![w] = EmptyTask]
  /\ notified' = notified \cup {taskToComplete[w].taskId}
  /\ UNCHANGED <<poolVars, lockVars, carg, cbody, cret, cres, cpushed, csnap, cvalid,
                 enqueueLog, dequeueLog, execCount, addDone, stopCalls, stopDone,
                 heldAtStop, aborted, dtorVars>>

\* ---- addTask -------------------------------------------------------------------
\* the value of ++lastTaskId_ in line 170, given the counter before the increment
PushedId_PostIncrement(old) == old
PushedId(old) == old + 1

\* line 169: std::lock_guard l(mutex_q_); the caller passes any body
AddTaskLock(c, b) ==
  /\ ~aborted
  /\ cpc[c] = "idle"
  /\ dtorBy = 0
  /\ lastTaskId_ + PendingSubmits + (IF b = "submit" THEN 2 ELSE 1) <= MaxTasks
  /\ mutex_q_ = Unlocked
  /\ mutex_q_' = CTid(c)
  /\ cbody' = [cbody EXCEPT ![c] = b]
  /\ cpc' = [cpc EXCEPT ![c] = "at_emplace"]
  /\ UNCHANGED <<poolVars, mutex_s_, workerVars, carg, cret, cres, cpushed, csnap, cvalid,
                 histVars, aborted, dtorVars>>

\* lines 170-171: tasksQueue_.emplace(Task{bind(...), ++lastTaskId_}), release mutex_q_
AddTaskEmplace(c) ==
  /\ ~aborted
  /\ cpc[c] = "at_emplace"
  /\ lastTaskId_' = lastTaskId_ + 1
  /\ tasksQueue_' = Append(tasksQueue_,
                           [executable |-> cbody[c], taskId |-> PushedId(lastTaskId_)])
  /\ cpushed' = [cpushed EXCEPT ![c] = PushedId(lastTaskId_)]
  /\ enqueueLog' = Append(enqueueLog, PushedId(lastTaskId_))
  /\ mutex_q_' = Unlocked
  /\ cbody' = [cbody EXCEPT ![c] = "ok"]
  /\ cpc' = [cpc EXCEPT ![c] = "at_notify"]
  /\ UNCHANGED <<completedTaskIds_, isTerminated_, mutex_s_, workerVars,
                 carg, cret, cres, csnap, cvalid,
                 dequeueLog, execCount, addDone, stopCalls, stopDone, heldAtStop,
                 notified, aborted, dtorVars>>

\* line 172: cv_new_task_.notify_one()
AddTaskNotify(c) ==
  /\ ~aborted
  /\ cpc[c] = "at_notify"
  /\ NotifyOneNewTask
  /\ cpc' = [cpc EXCEPT ![c] = "at_return"]
  /\ UNCHANGED <<poolVars, lockVars, taskToComplete, carg, cbody, cret, cres, cpushed,
                 csnap, cvalid, histVars, aborted, dtorVars>>

\* line 173: return lastTaskId_; (a second read of the atomic, outside the lock)
AddTaskReturn(c) ==
  /\ ~aborted
  /\ cpc[c] = "at_return"
  /\ cret' = [cret EXCEPT ![c] = lastTaskId_]
  /\ addDone' = addDone \cup {cpushed[c]}
  /\ cpc' = [cpc EXCEPT ![c] = "at_ret"]
  /\ UNCHANGED <<poolVars, lockVars, workerVars, carg, cbody, cres, cpushed, csnap, cvalid,
                 enqueueLog, dequeueLog, execCount, stopCalls, stopDone, heldAtStop,
                 notified, aborted, dtorVars>>

\* ---- isValidTaskId ------------------------------------------------------------
\* line 189
isValidTaskId_NoLowerBound(taskId) == taskId <= lastTaskId_
isValidTaskId(taskId) == taskId <= lastTaskId_ /\ taskId > 0

\* ---- waitAll --------------------------------------------------------------------
\* the wait predicate of line 143
WaitAllPred_QueueEmpty == tasksQueue_ = <<>>
WaitAllPred == Cardinality(completedTaskIds_) = lastTaskId_

\* line 142: std::unique_lock l(mutex_s_), also the re-lock after a wake-up.
\* On the first lock of a call csnap remembers which addTask calls had returned:
\* every addTask that returned before the call began is among them.
WaitAllLock(c) ==
  /\ ~aborted
  /\ cpc[c] \in {"idle", "wa_lock"}
  /\ cpc[c] = "idle" => dtorBy = 0
  /\ mutex_s_ = Unlocked
  /\ mutex_s_' = CTid(c)
  /\ csnap' = [csnap EXCEPT ![c] = IF cpc[c] = "idle" THEN addDone ELSE @]
  /\ cpc' = [cpc EXCEPT ![c] = "wa_pred"]
  /\ UNCHANGED <<poolVars, mutex_q_, workerVars, carg, cbody, cret, cres, cpushed, cvalid,
                 histVars, aborted, dtorVars>>

\* line 143: predicate true -> return (releasing the lock);
\* predicate false -> release the lock and block on cv_completed_task_
WaitAllWait(c) ==
  /\ ~aborted
  /\ cpc[c] = "wa_pred"
  /\ mutex_s_' = Unlocked
  /\ cpc' = [cpc EXCEPT ![c] = IF WaitAllPred THEN "wa_ret" ELSE "wa_blocked"]
  /\ UNCHANGED <<poolVars, mutex_q_, workerVars, carg, cbody, cret, cres, cpushed, csnap, cvalid,
                 histVars, aborted, dtorVars>>

\* ---- waitTask -------------------------------------------------------------------
\* the wait predicate of line 151
WaitTaskPred_AnyCompleted(taskId) == completedTaskIds_ # {}
WaitTaskPred(taskId) == taskId \in completedTaskIds_

\* line 148: if (isValidTaskId(taskId)) ... else return
WaitTaskCall(c, id) ==
  /\ ~aborted
  /\ cpc[c] = "idle"
  /\ dtorBy = 0
  /\ carg' = [carg EXCEPT ![c] = id]
  /\ cpc' = [cpc EXCEPT ![c] = IF isValidTaskId(id) THEN "wt_lock" ELSE "wt_ret"]
  /\ cvalid' = [cvalid EXCEPT ![c] = (0 < id /\ id <= lastTaskId_)]
  /\ UNCHANGED <<poolVars, lockVars, workerVars, cbody, cret, cres, cpushed, csnap,
                 histVars, aborted, dtorVars>>

\* line 150: std::unique_lock l(mutex_s_), also the re-lock after a wake-up
WaitTaskLock(c) ==
  /\ ~aborted
  /\ cpc[c] = "wt_lock"
  /\ mutex_s_ = Unlocked
  /\ mutex_s_' = CTid(c)
  /\ cpc' = [cpc EXCEPT ![c] = "wt_pred"]
  /\ UNCHANGED <<poolVars, mutex_q_, workerVars, carg, cbody, cret, cres, cpushed, csnap, cvalid,
                 histVars, aborted, dtorVars>>

\* line 151
WaitTaskWait_KeepLock(c) ==
  /\ ~aborted
  /\ cpc[c] = "wt_pred"
  /\ mutex_s_' = IF WaitTaskPred(carg[c]) THEN Unlocked ELSE mutex_s_
  /\ cpc' = [cpc EXCEPT ![c] = IF WaitTaskPred(carg[c]) THEN "wt_ret" ELSE "wt_blocked"]
  /\ UNCHANGED <<poolVars, mutex_q_, workerVars, carg, cbody, cret, cres, cpushed, csnap, cvalid,
                 histVars, aborted, dtorVars>>

WaitTaskWait(c) ==
  /\ ~aborted
  /\ cpc[c] = "wt_pred"
  /\ mutex_s_' = Unlocked
  /\ cpc' = [cpc EXCEPT ![c] = IF WaitTaskPred(carg[c]) THEN "wt_ret" ELSE "wt_blocked"]
  /\ UNCHANGED <<poolVars, mutex_q_, workerVars, carg, cbody, cret, cres, cpushed, csnap, cvalid,
                 histVars, aborted, dtorVars>>

\* a wait on cv_completed_task_ may wake up without a notification
WaiterSpuriousWake(c) ==
  /\ ~aborted
  /\ cpc[c] \in {"wa_blocked", "wt_blocked"}
  /\ cpc' = [cpc EXCEPT ![c] = Resume(cpc[c])]
  /\ UNCHANGED <<poolVars, lockVars, workerVars, carg, cbody, cret, cres, cpushed, csnap, cvalid,
                 histVars, aborted, dtorVars>>

\* ---- isCompleted ----------------------------------------------------------------
\* lines 178-181: an invalid id returns false without taking the lock
IsCompletedCall(c, id) ==
  /\ ~aborted
  /\ cpc[c] = "idle"
  /\ dtorBy = 0
  /\ carg' = [carg EXCEPT ![c] = id]
  /\ IF isValidTaskId(id)
       THEN /\ cpc' = [cpc EXCEPT ![c] = "ic_lock"]
            /\ cres' = cres
       ELSE /\ cpc' = [cpc EXCEPT ![c] = "ic_ret"]
            /\ cres' = [cres EXCEPT ![c] = FALSE]
  /\ cvalid' = [cvalid EXCEPT ![c] = (0 < id /\ id <= lastTaskId_)]
  /\ UNCHANGED <<poolVars, lockVars, workerVars, cbody, cret, cpushed, csnap,
                 histVars, aborted, dtorVars>>

\* line 183: std::lock_guard l(mutex_s_)
IsCompletedLock(c) ==
  /\ ~aborted
  /\ cpc[c] = "ic_lock"
  /\ mutex_s_ = Unlocked
  /\ mutex_s_' = CTid(c)
  /\ cpc' = [cpc EXCEPT ![c] = "ic_read"]
  /\ UNCHANGED <<poolVars, mutex_q_, workerVars, carg, cbody, cret, cres, cpushed, csnap, cvalid,
                 histVars, aborted, dtorVars>>

\* line 184: return completedTaskIds_.contains(taskId), releasing mutex_s_
IsCompletedRead(c) ==
  /\ ~aborted
  /\ cpc[c] = "ic_read"
  /\ cres' = [cres EXCEPT ![c] = (carg[c] \in completedTaskIds_)]
  /\ mutex_s_' = Unlocked
  /\ cpc' = [cpc EXCEPT ![c] = "ic_ret"]
  /\ UNCHANGED <<poolVars, mutex_q_, workerVars, carg, cbody, cret, cpushed, csnap, cvalid,
                 histVars, aborted, dtorVars>>

\* ---- stopProcessingTasks ----------------------------------------------------------
\* line 157: isTerminated_.store(true)
StopStore_NoFlag(c) ==
  /\ ~aborted
  /\ cpc[c] = "idle"
  /\ dtorBy = 0
  /\ stopCalls < MaxStops
  /\ isTerminated_' = isTerminated_
  /\ stopCalls' = stopCalls + 1
  /\ heldAtStop' = [w \in Workers |->
                      IF wpc[w] \in InHand THEN taskToComplete[w].taskId ELSE heldAtStop[w]]
  /\ cpc' = [cpc EXCEPT ![c] = "st_lock"]
  /\ UNCHANGED <<tasksQueue_, completedTaskIds_, lastTaskId_, lockVars, workerVars,
                 carg, cbody, cret, cres, cpushed, csnap, cvalid,
                 enqueueLog, dequeueLog, execCount, addDone, stopDone, notified, aborted, dtorVars>>

StopStore(c) ==
  /\ ~aborted
  /\ cpc[c] = "idle"
  /\ dtorBy = 0
  /\ stopCalls < MaxStops
  /\ isTerminated_' = TRUE
  /\ stopCalls' = stopCalls + 1
  /\ heldAtStop' = [w \in Workers |->
                      IF wpc[w] \in InHand THEN taskToComplete[w].taskId ELSE heldAtStop[w]]
  /\ cpc' = [cpc EXCEPT ![c] = "st_lock"]
  /\ UNCHANGED <<tasksQueue_, completedTaskIds_, lastTaskId_, lockVars, workerVars,
                 carg, cbody, cret, cres, cpushed, csnap, cvalid,
                 enqueueLog, dequeueLog, execCount, addDone, stopDone, notified, aborted, dtorVars>>

\* line 159: std::lock_guard l(mutex_q_)
StopLock(c) ==
  /\ ~aborted
  /\ cpc[c] = "st_lock"
  /\ mutex_q_ = Unlocked
  /\ mutex_q_' = CTid(c)
  /\ cpc' = [cpc EXCEPT ![c] = "st_emplace"]
  /\ UNCHANGED <<poolVars, mutex_s_, workerVars, carg, cbody, cret, cres, cpushed, csnap, cvalid,
                 histVars, aborted, dtorVars>>

\* lines 160-161: tasksQueue_.emplace() pushes a default Task, release mutex_q_
StopEmplace(c) ==
  /\ ~aborted
  /\ cpc[c] = "st_emplace"
  /\ tasksQueue_' = Append(tasksQueue_, EmptyTask)
  /\ mutex_q_' = Unlocked
  /\ cpc' = [cpc EXCEPT ![c] = "st_notify"]
  /\ UNCHANGED <<completedTaskIds_, lastTaskId_, isTerminated_, mutex_s_, workerVars,
                 carg, cbody, cret, cres, cpushed, csnap, cvalid, histVars, aborted, dtorVars>>

\* line 162: cv_new_task_.notify_all(), then the call returns
StopNotify(c) ==
  /\ ~aborted
  /\ cpc[c] = "st_notify"
  /\ NotifyAllNewTask
  /\ stopDone' = stopDone + 1
  /\ cpc' = [cpc EXCEPT ![c] = "st_ret"]
  /\ UNCHANGED <<poolVars, lockVars, taskToComplete, carg, cbody, cret, cres, cpushed,
                 csnap, cvalid, enqueueLog, dequeueLog, execCount, addDone, stopCalls, heldAtStop,
                 notified, aborted, dtorVars>>

\* ---- ~ThreadPool ---------------------------------------------------------------------
\* Lines 135-138 call stopProcessingTasks; the members are then destroyed in
\* reverse order of declaration: threads_ (line 123) first, and the destructor of
\* each std::jthread joins its thread, then the atomics, the set, the queue, the
\* condition variables and the mutexes (lines 111-121).
\* The pool is destroyed by one thread, once, while no other call is running.

\* the real tasks of a queue
RealTasks(q) == SelectSeq(q, LAMBDA t : t.executable # "empty")

\* the join of every std::jthread of threads_ returns once its worker has left threadMain
AllJoined_Detached == TRUE
AllJoined == \A w \in Workers : wpc[w] = "stopped"

\* line 137 entering stopProcessingTasks, line 157: isTerminated_.store(true)
DtorBegin(c) ==
  /\ ~aborted
  /\ dtorBy = 0
  /\ \A d \in Callers : cpc[d] = "idle"
  /\ dtorBy' = c
  /\ pendingAtDtor' =
       {RealTasks(tasksQueue_)[i].taskId : i \in 1..Len(RealTasks(tasksQueue_))}
       \cup {taskToComplete[w].taskId : w \in {v \in Workers : wpc[v] \in InHand}}
  /\ isTerminated_' = TRUE
  /\ stopCalls' = stopCalls + 1
  /\ heldAtStop' = [w \in Workers |->
                      IF wpc[w] \in InHand THEN taskToComplete[w].taskId ELSE heldAtStop[w]]
  /\ cpc' = [cpc EXCEPT ![c] = "st_lock"]
  /\ UNCHANGED <<tasksQueue_, completedTaskIds_, lastTaskId_, lockVars, workerVars,
                 carg, cbody, cret, cres, cpushed, csnap, cvalid,
                 enqueueLog, dequeueLog, execCount, addDone, stopDone, notified, aborted>>

\* after stopProcessingTasks returned: ~jthread joins every worker, then the
\* other members are destroyed
DtorDestroy(c) ==
  /\ ~aborted
  /\ dtorBy = c
  /\ cpc[c] = "st_ret"
  /\ AllJoined
  /\ cpc' = [cpc EXCEPT ![c] = "destroyed"]
  /\ UNCHANGED <<poolVars, lockVars, workerVars, carg, cbody, cret, cres, cpushed, csnap,
                 cvalid, histVars, aborted, dtorVars>>

\* the members of the pool have been destroyed
Destroyed == \E c \in Callers : cpc[c] = "destroyed"

\* ---- the client thread goes on after a call returned ----------------------------------
Returned == {"at_ret", "wa_ret", "wt_ret", "ic_ret", "st_ret"}

CallerContinue(c) ==
  /\ ~aborted
  /\ cpc[c] \in Returned
  /\ dtorBy # c
  /\ cpc' = [cpc EXCEPT ![c] = "idle"]
  /\ carg' = [carg EXCEPT ![c] = 0]
  /\ cbody' = [cbody EXCEPT ![c] = "ok"]
  /\ cret' = [cret EXCEPT ![c] = 0]
  /\ cres' = [cres EXCEPT ![c] = FALSE]
  /\ cpushed' = [cpushed EXCEPT ![c] = 0]
  /\ csnap' = [csnap EXCEPT ![c] = {}]
  /\ cvalid' = [cvalid EXCEPT ![c] = FALSE]
  /\ UNCHANGED <<poolVars, lockVars, workerVars, histVars, aborted, dtorVars>>

\* ---- the system -----------------------------------------------------------------
\* every action is guarded by ~aborted: after std::terminate no thread takes a step
Next ==
  \/ \E w \in Workers : WorkerLock(w)
  \/ \E w \in Workers : WorkerCritical(w)
  \/ \E w \in Workers : WorkerSpuriousWake(w)
  \/ \E w \in Workers : WorkerExec(w)
  \/ \E w \in Workers : WorkerLockS(w)
  \/ \E w \in Workers : WorkerEmplace(w)
  \/ \E w \in Workers : WorkerNotify(w)
  \/ \E c \in Callers, b \in Bodies : AddTaskLock(c, b)
  \/ \E c \in Callers : AddTaskEmplace(c)
  \/ \E c \in Callers : AddTaskNotify(c)
  \/ \E c \in Callers : AddTaskReturn(c)
  \/ \E c \in Callers : WaitAllLock(c)
  \/ \E c \in Callers : WaitAllWait(c)
  \/ \E c \in Callers, id \in TaskIdArgs : WaitTaskCall(c, id)
  \/ \E c \in Callers : WaitTaskLock(c)
  \/ \E c \in Callers : WaitTaskWait(c)
  \/ \E c \in Callers : WaiterSpuriousWake(c)
  \/ \E c \in Callers, id \in TaskIdArgs : IsCompletedCall(c, id)
  \/ \E c \in Callers : IsCompletedLock(c)
  \/ \E c \in Callers : IsCompletedRead(c)
  \/ \E c \in Callers : StopStore(c)
  \/ \E c \in Callers : StopLock(c)
  \/ \E c \in Callers : StopEmplace(c)
  \/ \E c \in Callers : StopNotify(c)
  \/ \E c \in Callers : CallerContinue(c)
  \/ \E c \in Callers : DtorBegin(c)
  \/ \E c \in Callers : DtorDestroy(c)

Spec == Init /\ [][Next]_vars

\* ---- scheduling -----------------------------------------------------------------
\* the steps of worker w that the scheduler owes it: everything threadMain does
\* of itself.  A wake-up without a notification is never owed.
WorkerStep(w) ==
  \/ WorkerLock(w)
  \/ WorkerCritical(w)
  \/ WorkerExec(w)
  \/ WorkerBodyLock(w)
  \/ WorkerBodyEmplace(w)
  \/ WorkerBodyNotify(w)
  \/ WorkerBodyReturn(w)
  \/ WorkerLockS(w)
  \/ WorkerEmplace(w)
  \/ WorkerNotify(w)

\* the steps of client thread c inside a call it has begun; beginning a call is
\* the client's choice and is never owed
CallerStep(c) ==
  \/ AddTaskEmplace(c)
  \/ AddTaskNotify(c)
  \/ AddTaskReturn(c)
  \/ (cpc[c] = "wa_lock" /\ WaitAllLock(c))
  \/ WaitAllWait(c)
  \/ WaitTaskLock(c)
  \/ WaitTaskWait(c)
  \/ StopLock(c)
  \/ StopEmplace(c)
  \/ StopNotify(c)

\* a fair scheduler: a thread whose next step is possible again and again
\* (a mutex that is free again and again) eventually takes it
Fairness ==
  /\ \A w \in Workers : SF_vars(WorkerStep(w))
  /\ \A c \in Callers : SF_vars(CallerStep(c))

\* a pool that is never stopped and whose task bodies all return: submissions
\* and waits only
NextRun ==
  \/ \E w \in Workers : WorkerLock(w)
  \/ \E w \in Workers : WorkerCritical(w)
  \/ \E w \in Workers : WorkerSpuriousWake(w)
  \/ \E w \in Workers : WorkerExec(w)
  \/ \E w \in Workers : WorkerLockS(w)
  \/ \E w \in Workers : WorkerEmplace(w)
  \/ \E w \in Workers : WorkerNotify(w)
  \/ \E c \in Callers : AddTaskLock(c, "ok")
  \/ \E c \in Callers : AddTaskEmplace(c)
  \/ \E c \in Callers : AddTaskNotify(c)
  \/ \E c \in Callers : AddTaskReturn(c)
  \/ \E c \in Callers : WaitAllLock(c)
  \/ \E c \in Callers : WaitAllWait(c)
  \/ \E c \in Callers, id \in 1..MaxTasks : WaitTaskCall(c, id)
  \/ \E c \in Callers : WaitTaskLock(c)
  \/ \E c \in Callers : WaitTaskWait(c)
  \/ \E c \in Callers : WaiterSpuriousWake(c)
  \/ \E c \in Callers : CallerContinue(c)

SpecRun == Init /\ [][NextRun]_vars /\ Fairness

\* a pool whose task bodies all return and that is stopped by an explicit call
NextStop ==
  \/ \E w \in Workers : WorkerLock(w)
  \/ \E w \in Workers : WorkerCritical(w)
  \/ \E w \in Workers : WorkerSpuriousWake(w)
  \/ \E w \in Workers : WorkerExec(w)
  \/ \E w \in Workers : WorkerLockS(w)
  \/ \E w \in Workers : WorkerEmplace(w)
  \/ \E w \in Workers : WorkerNotify(w)
  \/ \E c \in Callers : AddTaskLock(c, "ok")
  \/ \E c \in Callers : AddTaskEmplace(c)
  \/ \E c \in Callers : AddTaskNotify(c)
  \/ \E c \in Callers : AddTaskReturn(c)
  \/ \E c \in Callers : StopStore(c)
  \/ \E c \in Callers : StopLock(c)
  \/ \E c \in Callers : StopEmplace(c)
  \/ \E c \in Callers : StopNotify(c)
  \/ \E c \in Callers : CallerContinue(c)

SpecStop == Init /\ [][NextStop]_vars /\ Fairness

\* ThreadPool::ThreadPool(numThreads), lines 126-133: a pool of any size from one
\* worker up to NumWorkers; a worker the constructor did not create takes no step
InitBusy ==
  /\ tasksQueue_ = <<>>
  /\ completedTaskIds_ = {}
  /\ lastTaskId_ = 0
  /\ isTerminated_ = FALSE
  /\ mutex_q_ = Unlocked
  /\ mutex_s_ = Unlocked
  /\ \E numThreads \in 1..NumWorkers :
       wpc = [w \in Workers |-> IF w <= numThreads THEN "lock_q" ELSE "absent"]
  /\ taskToComplete = [w \in Workers |-> EmptyTask]
  /\ cpc = [c \in Callers |-> "idle"]
  /\ carg = [c \in Callers |-> 0]
  /\ cbody = [c \in Callers |-> "ok"]
  /\ cret = [c \in Callers |-> 0]
  /\ cres = [c \in Callers |-> FALSE]
  /\ cpushed = [c \in Callers |-> 0]
  /\ csnap = [c \in Callers |-> {}]
  /\ cvalid = [c \in Callers |-> FALSE]
  /\ aborted = FALSE
  /\ enqueueLog = <<>>
  /\ dequeueLog = <<>>
  /\ execCount = [i \in 0..MaxTasks |-> 0]
  /\ addDone = {}
  /\ stopCalls = 0
  /\ stopDone = 0
  /\ heldAtStop = [w \in Workers |-> 0]
  /\ notified = {}
  /\ dtorBy = 0
  /\ pendingAtDtor = {}

\* a pool whose task bodies return, never finish, or call addTask themselves
NextBusy ==
  \/ \E w \in Workers : WorkerLock(w)
  \/ \E w \in Workers : WorkerCritical(w)
  \/ \E w \in Workers : WorkerSpuriousWake(w)
  \/ \E w \in Workers : WorkerExec(w)
  \/ \E w \in Workers : WorkerBodyLock(w)
  \/ \E w \in Workers : WorkerBodyEmplace(w)
  \/ \E w \in Workers : WorkerBodyNotify(w)
  \/ \E w \in Workers : WorkerBodyReturn(w)
  \/ \E w \in Workers : WorkerLockS(w)
  \/ \E w \in Workers : WorkerEmplace(w)
  \/ \E w \in Workers : WorkerNotify(w)
  \/ \E c \in Callers, b \in BusyBodies : AddTaskLock(c, b)
  \/ \E c \in Callers : AddTaskEmplace(c)
  \/ \E c \in Callers : AddTaskNotify(c)
  \/ \E c \in Callers : AddTaskReturn(c)
  \/ \E c \in Callers : WaitAllLock(c)
  \/ \E c \in Callers : WaitAllWait(c)
  \/ \E c \in Callers : WaiterSpuriousWake(c)
  \/ \E c \in Callers : CallerContinue(c)

SpecBusy == InitBusy /\ [][NextBusy]_vars /\ Fairness

\* ---- claims ------------------------------------------------------------------------
Holding(w) == wpc[w] \in InHand
Adding(c) == cpc[c] \in {"at_emplace", "at_notify", "at_return"}

\* C1: when waitAll returns, every task whose addTask call had returned before
\* the waitAll call began has run to its end and is in completedTaskIds_.
C1_WaitAllCoversEarlierTasks ==
  \A c \in Callers :
    cpc[c] = "wa_ret" =>
      \A id \in csnap[c] : id \in completedTaskIds_ /\ execCount[id] >= 1

\* a waitAll that covered a task has returned while another thread is in addTask
C1_Witness ==
  \E c, d \in Callers :
    /\ cpc[c] = "wa_ret"
    /\ csnap[c] # {}
    /\ Adding(d)

\* C2: a waitTask(id) called with 0 < id <= lastTaskId_ returns only once the
\* task id has run to its end and id is in completedTaskIds_, whatever other
\* tasks have completed.
C2_WaitTaskReturnsOnlyForItsTask ==
  \A c \in Callers :
    (cpc[c] = "wt_ret" /\ cvalid[c]) =>
      (carg[c] \in completedTaskIds_ /\ execCount[carg[c]] >= 1)

\* a waiter is still inside waitTask(id) although another task has completed,
\* and next to it a waitTask on a valid id has returned
C2_Witness ==
  \E c, d \in Callers :
    /\ cpc[c] \in {"wt_lock", "wt_pred", "wt_blocked"}
    /\ completedTaskIds_ # {}
    /\ carg[c] \notin completedTaskIds_
    /\ cpc[d] = "wt_ret"
    /\ cvalid[d]

\* C3: a waitTask or isCompleted call with an id that is zero, negative or
\* above every id assigned so far returns in its first step, never touching
\* mutex_s_ or the condition variable, isCompleted with false, and leaves the
\* pool, the locks and the workers as they were; this in every pool state.
C3_InvalidIdIsNoOp ==
  [][\A c \in Callers :
       (/\ cpc[c] = "idle"
        /\ cpc'[c] \in {"wt_lock", "wt_ret", "ic_lock", "ic_ret"}
        /\ (carg'[c] <= 0 \/ carg'[c] > lastTaskId_))
       => /\ cpc'[c] \in {"wt_ret", "ic_ret"}
          /\ (cpc'[c] = "ic_ret" => cres'[c] = FALSE)
          /\ UNCHANGED <<poolVars, lockVars, workerVars>>]_vars

\* both calls have returned for ids never assigned (one of them positive),
\* in a terminated pool with a real task pending
C3_Witness ==
  \E c, d \in Callers :
    /\ cpc[c] = "wt_ret" /\ ~cvalid[c] /\ carg[c] > lastTaskId_
    /\ cpc[d] = "ic_ret" /\ ~cvalid[d] /\ carg[d] <= 0 /\ cres[d] = FALSE
    /\ isTerminated_
    /\ RealTasks(tasksQueue_) # <<>>

\* C4: the value addTask returns is the taskId of the Task this call pushed.
C4_AddTaskReturnsPushedId ==
  \A c \in Callers : cpc[c] = "at_ret" => cret[c] = cpushed[c]

\* C5: the k-th task ever enqueued has taskId k (ids are distinct, start at 1
\* and grow by assignment order), and the real tasks in tasksQueue_ carry
\* strictly increasing taskIds from front to back.
C5_IdsCountUpFromOne ==
  /\ \A k \in 1..Len(enqueueLog) : enqueueLog[k] = k
  /\ \A i, j \in 1..Len(RealTasks(tasksQueue_)) :
       i < j => RealTasks(tasksQueue_)[i].taskId < RealTasks(tasksQueue_)[j].taskId
  /\ \A i \in 1..Len(RealTasks(tasksQueue_)) : RealTasks(tasksQueue_)[i].taskId >= 1

\* two tasks pushed by two different threads wait in the queue
C5_Witness ==
  /\ Len(RealTasks(tasksQueue_)) >= 2
  /\ \E c, d \in Callers : c # d /\ Adding(c) /\ Adding(d)

\* C6: tasks are dequeued in the order they were enqueued: the dequeue history
\* is a prefix of the enqueue history.
C6_DequeueOrderIsSubmissionOrder ==
  /\ Len(dequeueLog) <= Len(enqueueLog)
  /\ \A i \in 1..Len(dequeueLog) : dequeueLog[i] = enqueueLog[i]

\* two tasks were dequeued in order by two workers and the later one completed first
C6_Witness ==
  /\ Len(dequeueLog) >= 2
  /\ dequeueLog[2] \in completedTaskIds_
  /\ dequeueLog[1] \notin completedTaskIds_

\* C7: no task is dequeued twice, no body runs to its end twice, a dequeued
\* task is no longer in the queue, and two workers never hold the same task.
C7_ExactlyOnce ==
  /\ \A i, j \in 1..Len(dequeueLog) : i # j => dequeueLog[i] # dequeueLog[j]
  /\ \A id \in DOMAIN execCount : execCount[id] <= 1
  /\ \A i \in 1..Len(tasksQueue_) :
       tasksQueue_[i].executable # "empty" => tasksQueue_[i].taskId \notin Range(dequeueLog)
  /\ \A v, w \in Workers :
       (v # w /\ Holding(v) /\ Holding(w)) =>
         taskToComplete[v].taskId # taskToComplete[w].taskId

\* two workers execute two tasks at once while a thread is submitting
C7_Witness ==
  /\ \E v, w \in Workers : v # w /\ wpc[v] = "exec" /\ wpc[w] = "exec"
  /\ \E c \in Callers : Adding(c)

\* C8: a task body that throws does not bring the worker or the pool down.
C8_ThrowDoesNotCrash == ~aborted

\* C9: a worker that had a task in hand when stopProcessingTasks was called
\* leaves its loop only after that task ran to its end, its id was put into
\* completedTaskIds_ and the waiters were notified; a worker never leaves the
\* loop with a task in hand, and
\* every dequeued task is completed or still in the hands of a running worker.
C9_InFlightTaskCompletes ==
  /\ \A w \in Workers :
       wpc[w] = "stopped" =>
         /\ taskToComplete[w] = EmptyTask
         /\ heldAtStop[w] # 0 =>
              /\ execCount[heldAtStop[w]] >= 1
              /\ heldAtStop[w] \in completedTaskIds_
              /\ heldAtStop[w] \in notified
  /\ \A i \in 1..Len(dequeueLog) :
       \/ dequeueLog[i] \in completedTaskIds_
       \/ \E w \in Workers :
            /\ wpc[w] \in {"exec", "lock_s", "emplace"}
            /\ taskToComplete[w].taskId = dequeueLog[i]

\* a worker stopped after completing the task it held when stop was called
C9_Witness ==
  \E w \in Workers :
    /\ wpc[w] = "stopped"
    /\ heldAtStop[w] # 0
    /\ heldAtStop[w] \in completedTaskIds_
    /\ stopDone > 0

\* C10: once a stopProcessingTasks call has returned no task is dequeued any
\* more; isTerminated_ never returns to false; a stopped worker stays stopped.
C10_StopRejectsQueuedTasks ==
  [][/\ (stopDone > 0 => dequeueLog' = dequeueLog)
     /\ (isTerminated_ => isTerminated_')
     /\ \A w \in Workers : wpc[w] = "stopped" => wpc'[w] = "stopped"]_vars

\* after stop returned every worker has stopped, a real task was left in the
\* queue and another one was added after the stop
C10_Witness ==
  /\ stopDone > 0
  /\ \A w \in Workers : wpc[w] = "stopped"
  /\ \E i, j \in 1..Len(tasksQueue_) :
       /\ i < j /\ j = i + 2
       /\ tasksQueue_[i].executable # "empty"
       /\ tasksQueue_[i + 1].executable = "empty"
       /\ tasksQueue_[j].executable # "empty"

\* ---- shutdown, wake-ups, locks ----------------------------------------------------
AllStopped == \A w \in Workers : wpc[w] = "stopped"
Queued(id) == \E i \in 1..Len(tasksQueue_) : tasksQueue_[i].taskId = id
InWaitTask(c) == cpc[c] \in {"wt_lock", "wt_pred", "wt_blocked"}
InWaitAll(c) == cpc[c] \in {"wa_lock", "wa_pred", "wa_blocked"}

\* C11: a task discarded by stopProcessingTasks does not leave its waiter
\* hanging: there is no state in which every worker has left its loop (for good,
\* see C10) while a client is inside waitTask(id) for a task that is still in the
\* queue, or inside waitAll with a task still in the queue.
C11_DiscardedTaskWaiterReturns ==
  \A c \in Callers :
    ~ /\ ~aborted
      /\ AllStopped
      /\ \/ InWaitTask(c) /\ carg[c] # 0 /\ Queued(carg[c])
         \/ InWaitAll(c) /\ \E id \in 1..lastTaskId_ : Queued(id)

\* C12: the shutdown the destructor performs is graceful: once the pool is
\* destroyed, every task that was queued or in flight when the destructor
\* started has run to its end.
C12_DestructorIsGraceful ==
  Destroyed =>
    \A id \in pendingAtDtor : id \in completedTaskIds_ /\ execCount[id] >= 1

\* C16: completedTaskIds_ holds only ids that addTask issued (1..lastTaskId_),
\* an id is in it only if its task was dequeued and its body ran to the end,
\* and 0 is never in it.
C16_CompletedIdsAreIssuedAndRun ==
  /\ completedTaskIds_ \subseteq 1..lastTaskId_
  /\ \A id \in completedTaskIds_ :
       /\ id \in Range(dequeueLog)
       /\ execCount[id] >= 1
  /\ 0 \notin completedTaskIds_

\* a task is completed while a later one is still queued behind a placeholder
C16_Witness ==
  /\ 1 \in completedTaskIds_
  /\ lastTaskId_ = 2
  /\ 2 \notin completedTaskIds_
  /\ \E i \in 1..Len(tasksQueue_) : tasksQueue_[i] = EmptyTask

\* C18: the destructor joins every worker before any pool state is destroyed:
\* when the members are destroyed every worker has left threadMain, holds no
\* task and no mutex.
C18_JoinBeforeDestroy ==
  Destroyed =>
    /\ \A w \in Workers : wpc[w] = "stopped" /\ taskToComplete[w] = EmptyTask
    /\ mutex_q_ = Unlocked
    /\ mutex_s_ = Unlocked

\* the pool is destroyed after its workers ran a task and a task was discarded
C18_Witness ==
  /\ Destroyed
  /\ completedTaskIds_ # {}
  /\ \E id \in 1..lastTaskId_ : Queued(id)

\* C19: the placeholder Task that stopProcessingTasks pushes (empty executable,
\* id 0) is never dequeued and never executed, also when stopProcessingTasks
\* runs more than once.
C19_PlaceholderNeverRuns ==
  /\ 0 \notin Range(dequeueLog)
  /\ execCount[0] = 0
  /\ \A w \in Workers : Holding(w) => taskToComplete[w].executable # "empty"

\* an explicit stop and the destructor's stop both pushed a placeholder, and
\* every worker has stopped after some task was dequeued
C19_Witness ==
  /\ stopCalls = 2
  /\ Cardinality({i \in 1..Len(tasksQueue_) : tasksQueue_[i] = EmptyTask}) = 2
  /\ AllStopped
  /\ dequeueLog # <<>>

\* C20: no thread ever holds mutex_q_ and mutex_s_ at the same time, and a
\* thread blocked in waitAll or waitTask holds neither, so it never keeps
\* addTask from taking mutex_q_.
C20_NeverBothMutexes ==
  /\ ~(mutex_q_ # Unlocked /\ mutex_q_ = mutex_s_)
  /\ \A c \in Callers :
       cpc[c] \in {"wa_blocked", "wt_blocked"} =>
         /\ mutex_q_ # CTid(c)
         /\ mutex_s_ # CTid(c)

\* one client is blocked in waitTask while another one is inside addTask
\* holding mutex_q_ and a worker holds mutex_s_
C20_Witness ==
  \E c, d \in Callers :
    /\ cpc[c] = "wt_blocked"
    /\ cpc[d] = "at_emplace"
    /\ mutex_q_ = CTid(d)
    /\ \E w \in Workers : mutex_s_ = WTid(w)

\* ---- progress under a fair scheduler ----------------------------------------------

\* C13: no wake-up is missed on submission: while the pool is never stopped and
\* task bodies return, every task that addTask put into the queue is
\* eventually dequeued, executed and recorded in completedTaskIds_.
C13_NoMissedWakeupOnSubmit ==
  \A id \in 1..MaxTasks :
    (id \in Range(enqueueLog)) ~>
      (id \in Range(dequeueLog) /\ execCount[id] >= 1 /\ id \in completedTaskIds_)

\* every worker is blocked on cv_new_task_ while a task is in the queue and the
\* notify_one of its addTask has not been issued yet
C13_Witness ==
  /\ \A w \in Workers : wpc[w] = "cv_blocked"
  /\ tasksQueue_ # <<>>
  /\ \E c \in Callers : cpc[c] = "at_notify"

\* C14: no wake-up is missed on completion: a thread inside waitTask(id) returns
\* eventually once id is in completedTaskIds_, and a thread inside waitAll
\* returns eventually unless a later submission makes its condition false again.
C14_NoMissedWakeupOnCompletion ==
  \A c \in Callers :
    /\ (InWaitTask(c) /\ carg[c] \in completedTaskIds_) ~> (cpc[c] = "wt_ret")
    /\ (InWaitAll(c) /\ WaitAllPred) ~> (cpc[c] = "wa_ret" \/ ~WaitAllPred)

\* a waiter is blocked on cv_completed_task_, its task has just been recorded
\* and the worker's notify_all is still to come, while another thread submits
C14_Witness ==
  \E c, d \in Callers :
    /\ cpc[c] = "wt_blocked"
    /\ carg[c] \in completedTaskIds_
    /\ \E w \in Workers : wpc[w] = "notify" /\ taskToComplete[w].taskId = carg[c]
    /\ Adding(d)

\* the positions of a worker inside a task body, outside the critical section
\* of an addTask the body calls
Executing(w) == wpc[w] \in {"exec", "b_lock", "b_notify", "b_return"}

\* C15: a worker holds neither mutex while it executes a task body, so mutex_q_
\* is free again and again and an addTask call, from a client thread or from
\* inside a running task, always completes, also while every worker executes a
\* task that never ends.
C15_NoLockHeldWhileExecuting ==
  /\ [](\A w \in Workers : Executing(w) => mutex_q_ # WTid(w) /\ mutex_s_ # WTid(w))
  /\ []<>(mutex_q_ = Unlocked)
  /\ \A c \in Callers : Adding(c) ~> (cpc[c] = "at_ret")
  /\ \A w \in Workers : (wpc[w] \in InBody) ~> (wpc[w] = "lock_s")

\* a client has taken mutex_q_ in addTask while every worker of the pool is
\* executing a task that never ends
C15_Witness ==
  /\ \A w \in Workers :
       wpc[w] # "absent" => wpc[w] = "exec" /\ taskToComplete[w].executable = "loop"
  /\ \E c \in Callers : cpc[c] = "at_emplace" /\ mutex_q_ = CTid(c)

\* C17: after stopProcessingTasks has been called every worker eventually
\* leaves its loop, provided the bodies that are running return: whether the
\* worker was blocked on cv_new_task_, busy with a task, or real tasks remain
\* in the queue.
C17_WorkersStopAfterStop ==
  (stopCalls > 0) ~> AllStopped

\* every worker has stopped; one of them was busy when stop was called and a
\* real task is left in the queue
C17_Witness ==
  /\ AllStopped
  /\ \E w \in Workers : heldAtStop[w] # 0
  /\ \E id \in 1..lastTaskId_ : Queued(id)
====
